---- MODULE Spec2Model ----
(***************************************************************************)
(* The risk-managed order lifecycle of synapse_trader: the Risk Manager    *)
(* (bots/risk_manager.py), the Executor (bots/executor.py) and the Monitor *)
(* (bots/monitor.py), which coordinate only through the event bus          *)
(* (core/event_bus.py) and the state store (core/state_manager.py).        *)
(*                                                                         *)
(* Every handler is an asyncio task; it is modelled as one action per      *)
(* stretch of code between two awaits, so that the interleavings TLC       *)
(* explores are the ones the scheduler can produce.                        *)
(***************************************************************************)
EXTENDS Integers, Sequences, FiniteSets, TLC

(***************************************************************************)
(* Bounds of the model.                                                    *)
(***************************************************************************)
\* settings.MAX_CONCURRENT_TRADES (utils/config.py:34, default 10, read from
\* the environment); kept small so that the cap is reached.
MAX_CONCURRENT_TRADES == 1
\* TradeSignals delivered to the Risk Manager.
MaxSignals == 2
\* Values of the millisecond clock int(time.time() * 1000).
MaxTime == 1
\* Infrastructure failures (store, event bus, database, exchange calls, candles
\* without a usable ATR) injected in one run.
MaxFailures == 1
\* Market ticks for watched symbols handed to _check_position_sl_tp.
MaxTicks == 2
\* Signals, ticks and failures together in one run.
MaxStimuli == 3
\* Relaunches of one stream listener.
MaxRestarts == 3
\* OrderRequests delivered to the Executor on their own.
MaxRequests == 2
\* Processes of the trading service started in an execution.
MaxMonitorStarts == 2

(***************************************************************************)
(* Program constants and input domains.                                    *)
(***************************************************************************)
Symbols == {"BTCUSDT", "ETHUSDT"}
OrderSide == {"BUY", "SELL"}

\* Optional values (Python's None).
None == <<>>
Some(x) == <<x>>

\* risk_manager.py:28-29, as the fractions 3/2 and 3/1.
SL_ATR_MULTIPLIER_NUM == 3
SL_ATR_MULTIPLIER_DEN == 2
TP_ATR_MULTIPLIER == 3
\* risk_manager.py:84: the ATR substituted when every ATR value is NaN.
DEFAULT_ATR == 100
\* settings.RISK_PER_TRADE_PERCENT = 0.005 (utils/config.py:33) as 5/1000.
RISK_PER_TRADE_NUM == 5
RISK_PER_TRADE_DEN == 1000

\* Exchange rules of a symbol (the filters SymbolFilters holds), in the
\* model's integer units: prices in price units, quantities in lots.
TickSize == 2
StepSize == 1
MinNotional == 200

\* What get_klines can deliver: the close of the last candle and its ATR.
\* "none": no candles; "nan": fewer candles than ATR_PERIOD, every ATR value
\* NaN; "zero": flat candles; "low": a quiet market; "offgrid": a close that
\* is no multiple of the tick SymbolFilters holds.
ClosePrice == 200
KlineCases == {"none", "nan", "zero", "ok"}
SizingKlineCases == KlineCases \cup {"low", "offgrid", "offgrid_low"}
CloseOf(k) == IF k \in {"offgrid", "offgrid_low"} THEN ClosePrice + 1 ELSE ClosePrice
AtrOf(k) == IF k = "zero" THEN 0 ELSE IF k \in {"low", "offgrid_low"} THEN 2 ELSE 4
\* What get_account_info can deliver as the free quote balance.
Balances == {0, 40000}
\* What get_account_info can do: raise, answer without the quote asset, or
\* answer with a free quote balance.
AccountCases ==
    {[kind |-> "error", free |-> 0], [kind |-> "missing", free |-> 0]}
        \cup {[kind |-> "ok", free |-> b] : b \in Balances \cup {-40000}}
\* The exchange rules SymbolFilters can have loaded for a symbol.
FilterCases ==
    [tickSize : {None, Some(0), Some(TickSize), Some(10 * TickSize)},
     stepSize : {None, Some(0), Some(StepSize), Some(5 * StepSize)},
     minNotional : {None, Some(MinNotional), Some(1000 * MinNotional)}]
\* Prices at which the exchange fills a MARKET order, and market ticks.
FillPrices == {200}
TickPrices == {200, 212}
\* Prices at which the exchange fills the MARKET order that closes a position.
ExitPrices == {188, 200, 212}

(***************************************************************************)
(* State.                                                                  *)
(***************************************************************************)
VARIABLES
    now,              \* int(time.time() * 1000) when it was last read
    failures,         \* infrastructure failures injected so far
    positions,        \* state store, collection "positions": symbol -> Position
    pending_orders,   \* state store, collection "pending_orders": id -> OrderRequest
    rm,               \* Risk Manager: one _on_trade_signal task per signal
    ex,               \* Executor: one _on_order_request task per published request
    orders,           \* exchange: the orders create_order has placed
    mon,              \* Monitor: one _process_order_fill task per FILLED report
    watched_symbols,  \* MonitorBot.watched_symbols
    checks,           \* Monitor: the _check_position_sl_tp tasks
    trade_log,        \* database table trade_logs
    events,           \* position_opened / position_closed events published
    filters,          \* SymbolFilters._filters: the exchange rules loaded at startup
    sizing,           \* the last signal sized on its own: inputs and outcome
    streams,          \* Monitor: the listener task of each exchange push stream
    signals_out,      \* Strategist: the approved signals it has published
    mon_run,          \* Monitor: how far run() has got
    rounding,         \* the last call of a SymbolFilters adjustment: input and results
    mon_starts        \* Monitor: the processes started so far

vars == <<now, failures, positions, pending_orders, rm, ex, orders, mon,
          watched_symbols, checks, trade_log, events,
          filters, sizing, streams, signals_out, mon_run, rounding, mon_starts>>

\* What no order-lifecycle handler writes.
outside == <<filters, sizing, streams, signals_out, mon_run, rounding, mon_starts>>

Remove(f, k) == [x \in DOMAIN f \ {k} |-> f[x]]
Put(f, k, v) == [x \in DOMAIN f \cup {k} |-> IF x = k THEN v ELSE f[x]]

\* What the environment has done so far: signals, ticks, failures.
Stimuli ==
    Cardinality({i \in DOMAIN rm : rm[i].pc # "idle"}) + Len(checks) + failures
        + Len(signals_out)

CanFail == failures < MaxFailures /\ Stimuli < MaxStimuli

\* time.time() is read as t: the clock never runs backwards, and its origin
\* is the millisecond in which the first client order id is built.
ClockReads(t) == t >= now /\ (ex = <<>> => t = now)

(***************************************************************************)
(* SymbolFilters (utils/symbol_filters.py).  A filter, or a field of it,   *)
(* that the exchange information did not carry reads as None.              *)
(***************************************************************************)
\* The rules load_filters stored at startup for the symbols traded.
LoadedFilters ==
    [tickSize |-> Some(TickSize), stepSize |-> Some(StepSize),
     minNotional |-> Some(MinNotional)]

Abs(x) == IF x < 0 THEN -x ELSE x

\* Decimal.to_integral_value(ROUND_DOWN) of n/d, d > 0: towards zero.
RoundDown(n, d) == IF n >= 0 THEN n \div d ELSE -((-n) \div d)

\* Decimal.to_integral_value(ROUND_HALF_UP) of n/d, d > 0: nearest, halves
\* away from zero.
RoundHalfUp(n, d) ==
    IF n >= 0 THEN (2 * n + d) \div (2 * d) ELSE -((2 * (-n) + d) \div (2 * d))

\* No adjustment has been called on its own yet.
IdleRounding == [op |-> "idle", input |-> 0, once |-> 0, twice |-> 0]

\* Mutant: the quantity is returned without rounding to the step.
adjust_quantity_to_step_unrounded(quantity) ==
    IF filters.stepSize # None /\ filters.stepSize[1] = 0 THEN 0 ELSE quantity

\* Mutant: the quantity is rounded up to the next multiple of the step.
adjust_quantity_to_step_up(quantity) ==
    IF filters.stepSize = None THEN quantity
    ELSE IF filters.stepSize[1] = 0 THEN 0
    ELSE -RoundDown(-quantity - filters.stepSize[1] + 1, filters.stepSize[1])
             * filters.stepSize[1]

\* symbol_filters.py:65-87: no LOT_SIZE filter returns the quantity as it
\* is, a step of zero returns 0.
adjust_quantity_to_step(quantity) ==
    IF filters.stepSize = None THEN quantity
    ELSE IF filters.stepSize[1] = 0 THEN 0
    ELSE RoundDown(quantity, filters.stepSize[1]) * filters.stepSize[1]

\* Mutant: the price is rounded down to the tick.
adjust_price_to_tick_down(price) ==
    IF filters.tickSize = None \/ filters.tickSize[1] = 0 THEN price
    ELSE RoundDown(price, filters.tickSize[1]) * filters.tickSize[1]

\* symbol_filters.py:89-116: no PRICE_FILTER, or a tick of zero, returns
\* the price as it is.
adjust_price_to_tick(price) ==
    IF filters.tickSize = None \/ filters.tickSize[1] = 0 THEN price
    ELSE RoundHalfUp(price, filters.tickSize[1]) * filters.tickSize[1]

\* symbol_filters.py:118-142: no MIN_NOTIONAL filter accepts every order.
validate_min_notional(quantity, price) ==
    IF filters.minNotional = None THEN TRUE
    ELSE ~(quantity * price < filters.minNotional[1])

\* Quantities and prices handed to the adjustments on their own.  A price
\* can be negative: a stop or target 1.5 or 3 ATR below the close of a cheap
\* symbol is (risk_manager.py:166-171).
Quantities == 0..12
Prices == -25..45

\* adjust_quantity_to_step(symbol, quantity), and again on its own result.
AdjustQuantity(q) ==
    /\ rounding' = [op |-> "quantity", input |-> q,
                    once |-> adjust_quantity_to_step(q),
                    twice |-> adjust_quantity_to_step(adjust_quantity_to_step(q))]
    /\ UNCHANGED <<now, failures, positions, pending_orders, rm, ex, orders, mon,
                   watched_symbols, checks, trade_log, events,
                   filters, sizing, streams, signals_out, mon_run, mon_starts>>

\* adjust_price_to_tick(symbol, price), and again on its own result.
AdjustPrice(p) ==
    /\ rounding' = [op |-> "price", input |-> p,
                    once |-> adjust_price_to_tick(p),
                    twice |-> adjust_price_to_tick(adjust_price_to_tick(p))]
    /\ UNCHANGED <<now, failures, positions, pending_orders, rm, ex, orders, mon,
                   watched_symbols, checks, trade_log, events,
                   filters, sizing, streams, signals_out, mon_run, mon_starts>>

(***************************************************************************)
(* RedisStateManager (core/state_manager.py).  Every method catches every  *)
(* exception, logs it and returns normally: a failed hset/hdel leaves the  *)
(* collection as it was, a failed hget reads as None and a failed hgetall  *)
(* as {}.  `ok` says whether the Redis call went through.                  *)
(***************************************************************************)
set_state(coll, key, data, ok) == IF ok THEN Put(coll, key, data) ELSE coll

\* Mutant: the delete never reaches the collection.
delete_state_noop(coll, key, ok) == coll

delete_state(coll, key, ok) == IF ok THEN Remove(coll, key) ELSE coll

get_state(coll, key, ok) ==
    IF ok /\ key \in DOMAIN coll THEN Some(coll[key]) ELSE None

\* Mutant: the collection is read under a name that holds nothing.
get_collection_empty(coll, ok) == <<>>

get_collection(coll, ok) == IF ok THEN coll ELSE <<>>

\* Does the call raise into its caller?  Never: state_manager.py:50-51 and
\* 76-77 swallow the exception.
state_call_raises(ok) == FALSE

(***************************************************************************)
(* Risk Manager (bots/risk_manager.py).                                    *)
(***************************************************************************)
IdleSignal == [pc |-> "idle", symbol |-> "", side |-> "", published |-> 0]

\* A finished handler keeps only how many requests it published.
SignalDone(t, published) == [IdleSignal EXCEPT !.pc = "done", !.published = published]

\* f"syn_{side.value}_{symbol}_{int(time.time() * 1000)}"
EntryClientOrderId(side, symbol, t) == <<"syn", side, symbol, t>>

\* f"syn_EXIT_{pos.side.value}_{symbol}_{int(time.time() * 1000)}"
ExitClientOrderId(side, symbol, t) == <<"syn_EXIT", side, symbol, t>>

\* A new Executor task for a request delivered on the order_request topic;
\* `by` names the handler that published it, `wrote` whether its write to
\* pending_orders went through, `created` its calls of create_order.
ExTask(req, by) ==
    [req |-> req, by |-> by, pc |-> "set", wrote |-> FALSE, created |-> 0]

\* Mutant: the request is published twice.
PublishOrderRequest_twice(req, by, ok) ==
    IF ok THEN Append(Append(ex, ExTask(req, by)), ExTask(req, by)) ELSE ex

\* RedisEventBus.publish of an OrderRequest: delivered to the Executor's
\* subscription, which starts a task for it; a failed publish is logged and
\* swallowed (event_bus.py:40-41) and delivers nothing.
PublishOrderRequest(req, by, ok) == IF ok THEN Append(ex, ExTask(req, by)) ELSE ex

\* risk_manager.py:47-96 and 138-161: the ATR and the current price the
\* handler works with for candles k, None when it rejects the signal.  All
\* ATR values NaN is not a rejection: line 84 substitutes DEFAULT_ATR.
AtrForSignal(k) ==
    LET atr_value == IF k = "nan" THEN DEFAULT_ATR ELSE AtrOf(k) IN
    IF k = "none" \/ atr_value = 0 THEN None
    ELSE Some([current_price |-> CloseOf(k), atr_value |-> atr_value])

\* risk_manager.py:163-174: stop and target, rounded to the price tick.
StopAndTarget(side, current_price, atr_value) ==
    LET distance_to_sl == (atr_value * SL_ATR_MULTIPLIER_NUM) \div SL_ATR_MULTIPLIER_DEN
        distance_to_tp == atr_value * TP_ATR_MULTIPLIER
        sl_price == IF side = "BUY" THEN current_price - distance_to_sl
                                    ELSE current_price + distance_to_sl
        tp_price == IF side = "BUY" THEN current_price + distance_to_tp
                                    ELSE current_price - distance_to_tp
    IN [sl_price |-> adjust_price_to_tick(sl_price),
        tp_price |-> adjust_price_to_tick(tp_price)]

\* Mutant: the whole balance is put at risk.
SizedQuantity_whole_balance(total_balance, current_price, sl_price) ==
    LET risk_per_unit == Abs(current_price - sl_price)
        quantity_adjusted ==
            IF risk_per_unit = 0 THEN 0
            ELSE adjust_quantity_to_step(total_balance \div risk_per_unit)
    IN IF /\ total_balance > 0
          /\ risk_per_unit # 0
          /\ quantity_adjusted # 0
          /\ validate_min_notional(quantity_adjusted, current_price)
          THEN quantity_adjusted ELSE 0

\* risk_manager.py:176-211: the quantity for a balance, 0 when the signal
\* is rejected (no balance, a stop on the price, a quantity that rounds to
\* zero or an order below the minimum notional).
SizedQuantity(total_balance, current_price, sl_price) ==
    LET risk_per_unit == Abs(current_price - sl_price)
        quantity_adjusted ==
            IF risk_per_unit = 0 THEN 0
            ELSE adjust_quantity_to_step(
                     (total_balance * RISK_PER_TRADE_NUM)
                         \div (RISK_PER_TRADE_DEN * risk_per_unit))
    IN IF /\ total_balance > 0
          /\ risk_per_unit # 0
          /\ quantity_adjusted # 0
          /\ validate_min_notional(quantity_adjusted, current_price)
          THEN quantity_adjusted ELSE 0

\* risk_manager.py:213-227.
EntryOrderRequest(symbol, side, quantity, sl_price, tp_price, t) ==
    [symbol |-> symbol, side |-> side, order_type |-> "MARKET",
     quantity |-> quantity,
     client_order_id |-> EntryClientOrderId(side, symbol, t),
     price |-> None, sl_price |-> Some(sl_price), tp_price |-> Some(tp_price)]

\* risk_manager.py:115-136: the signal arrives on trade_signal and its
\* handler task reads the positions collection: gates 1 and 2.
TradeSignal(i, s, sd, ok) ==
    /\ rm[i].pc = "idle"
    /\ Stimuli + (IF ok THEN 1 ELSE 2) <= MaxStimuli
    /\ \A j \in 1..(i - 1) : rm[j].pc # "idle"
    /\ ok \/ CanFail
    /\ LET open_positions == DOMAIN get_collection(positions, ok) IN
       rm' = [rm EXCEPT ![i] =
                 IF Cardinality(open_positions) >= MAX_CONCURRENT_TRADES
                    THEN SignalDone(@, 0)
                 ELSE IF s \in open_positions THEN SignalDone(@, 0)
                 ELSE [@ EXCEPT !.pc = "fetch", !.symbol = s, !.side = sd]]
    /\ failures' = IF ok THEN failures ELSE failures + 1
    /\ UNCHANGED <<now, positions, pending_orders, ex, orders, mon,
                   watched_symbols, checks, trade_log, events>>
    /\ UNCHANGED outside

\* risk_manager.py:138-211: what the handler approves for the candles k and
\* the balance: the reference price, the stop, the target and the quantity
\* of the order, or None when a gate rejects the signal.
ApprovedOrder(side, k, total_balance) ==
    LET atr == AtrForSignal(k)
        st == StopAndTarget(side, atr[1].current_price, atr[1].atr_value)
        quantity == SizedQuantity(total_balance, atr[1].current_price, st.sl_price)
    IN IF atr # None /\ quantity # 0
          THEN Some([current_price |-> atr[1].current_price,
                     sl_price |-> st.sl_price, tp_price |-> st.tp_price,
                     quantity |-> quantity])
          ELSE None

\* risk_manager.py:138-236: the candles k and then the balance arrive from
\* the exchange; place stop and target, size the order, build the client
\* order id from the clock (read as t) and publish.
RMSizeAndPublish(i, k, total_balance, t, ok) ==
    /\ rm[i].pc = "fetch"
    /\ ClockReads(t)
    /\ LET order == ApprovedOrder(rm[i].side, k, total_balance) IN
       IF order # None
          THEN /\ LET nfail == (IF ok THEN 0 ELSE 1) + (IF k = "nan" THEN 1 ELSE 0) IN
                  /\ nfail = 0 \/ (failures + nfail <= MaxFailures
                                    /\ Stimuli + nfail <= MaxStimuli)
                  /\ failures' = failures + nfail
               /\ ex' = PublishOrderRequest(
                            EntryOrderRequest(rm[i].symbol, rm[i].side,
                                              order[1].quantity, order[1].sl_price,
                                              order[1].tp_price, t),
                            <<"RiskManager", i>>, ok)
               /\ rm' = [rm EXCEPT ![i] = SignalDone(@, 1)]
               /\ now' = t
          ELSE /\ ok /\ t = now
               /\ rm' = [rm EXCEPT ![i] = SignalDone(@, 0)]
               /\ UNCHANGED <<ex, failures, now>>
    /\ UNCHANGED <<positions, pending_orders, orders, mon,
                   watched_symbols, checks, trade_log, events>>
    /\ UNCHANGED outside

\* Mutant: a failed account fetch falls back to a default balance.
get_available_balance_default(account) ==
    IF account.kind = "ok" THEN account.free ELSE 40000

\* risk_manager.py:98-113: the free balance of the quote asset; 0.0 when
\* the asset is not in the account or the fetch raises.
get_available_balance(account) ==
    IF account.kind = "ok" THEN account.free ELSE 0

\* No signal has been sized on its own yet.
IdleSizing ==
    [pc |-> "idle", side |-> "", klines |-> "",
     account |-> [kind |-> "", free |-> 0], order |-> None]

\* risk_manager.py:138-227 for one signal that passed gates 1 and 2, with
\* everything the exchange can answer: the candles k and the account.
SizeSignal(sd, k, account) ==
    /\ sizing' = [pc |-> "sized", side |-> sd, klines |-> k, account |-> account,
                  order |-> ApprovedOrder(sd, k, get_available_balance(account))]
    /\ UNCHANGED <<now, failures, positions, pending_orders, rm, ex, orders, mon,
                   watched_symbols, checks, trade_log, events,
                   filters, streams, signals_out, mon_run, rounding, mon_starts>>

(***************************************************************************)
(* Executor (bots/executor.py).                                            *)
(***************************************************************************)
\* What can arrive on the order_request topic as a valid OrderRequest
\* (core/types.py:58-70): MARKET or LIMIT, with or without a price.
OrderRequestCases ==
    [symbol : {"BTCUSDT"}, side : {"BUY"}, order_type : {"MARKET", "LIMIT"},
     quantity : {33},
     client_order_id : {EntryClientOrderId("BUY", "BTCUSDT", t) : t \in 0..MaxTime},
     price : {None, Some(ClosePrice)}, sl_price : {None}, tp_price : {None}]

\* executor.py:36-45: a request is delivered and its handler task starts.
OrderRequestArrives(req) ==
    /\ Len(ex) < MaxRequests
    /\ ex' = PublishOrderRequest(req, <<"Topic", 0>>, TRUE)
    /\ UNCHANGED <<now, failures, positions, pending_orders, rm, orders, mon,
                   watched_symbols, checks, trade_log, events>>
    /\ UNCHANGED outside

\* Mutant: a LIMIT request without a price is not told apart.
PricelessLimit_never(req) == FALSE

\* executor.py:72-73.
PricelessLimit(req) == req.order_type = "LIMIT" /\ req.price = None

\* Mutant: the request is written to the positions collection, under its
\* symbol.
ExSetState_into_positions(n, ok) ==
    /\ ex[n].pc = "set"
    /\ ok \/ CanFail
    /\ positions' = set_state(positions, ex[n].req.symbol, ex[n].req, ok)
    /\ ex' = [ex EXCEPT ![n].wrote = ok, ![n].pc = "create"]
    /\ failures' = IF ok THEN failures ELSE failures + 1
    /\ UNCHANGED <<now, pending_orders, rm, orders, mon, watched_symbols, checks,
                   trade_log, events>>
    /\ UNCHANGED outside

\* executor.py:47-78: write the request to pending_orders, first.  The
\* handler gives up only if set_state raises; a LIMIT request without a
\* price goes on to delete the entry instead of submitting.
ExSetState(n, ok) ==
    /\ ex[n].pc = "set"
    /\ ok \/ CanFail
    /\ pending_orders' =
           set_state(pending_orders, ex[n].req.client_order_id, ex[n].req, ok)
    /\ ex' = [ex EXCEPT ![n].wrote = ok,
                        ![n].pc =
                            IF state_call_raises(ok) THEN "done"
                            ELSE IF PricelessLimit(ex[n].req) THEN "del"
                            ELSE "create"]
    /\ failures' = IF ok THEN failures ELSE failures + 1
    /\ UNCHANGED <<now, positions, rm, orders, mon, watched_symbols, checks,
                   trade_log, events>>
    /\ UNCHANGED outside

\* executor.py:82-84: create_order returns; the exchange holds the order.
ExCreateOrder(n) ==
    /\ ex[n].pc = "create"
    /\ orders' = Append(orders, [req |-> ex[n].req, by |-> n, status |-> "NEW"])
    /\ ex' = [ex EXCEPT ![n].pc = "done", ![n].created = @ + 1]
    /\ UNCHANGED <<now, failures, positions, pending_orders, rm, mon,
                   watched_symbols, checks, trade_log, events>>
    /\ UNCHANGED outside

\* Mutant: after a failed create_order the handler returns at once.
ExCreateOrderFails_no_cleanup(n) ==
    /\ ex[n].pc = "create"
    /\ CanFail
    /\ failures' = failures + 1
    /\ ex' = [ex EXCEPT ![n].pc = "done", ![n].created = @ + 1]
    /\ UNCHANGED <<now, positions, pending_orders, rm, orders, mon,
                   watched_symbols, checks, trade_log, events>>
    /\ UNCHANGED outside

\* executor.py:82 and 86-101: create_order raises (an exchange rejection or
\* any other error); no order is placed and the handler goes on to delete
\* the pending entry.
ExCreateOrderFails(n) ==
    /\ ex[n].pc = "create"
    /\ CanFail
    /\ failures' = failures + 1
    /\ ex' = [ex EXCEPT ![n].pc = "del", ![n].created = @ + 1]
    /\ UNCHANGED <<now, positions, pending_orders, rm, orders, mon,
                   watched_symbols, checks, trade_log, events>>
    /\ UNCHANGED outside

\* executor.py:75, 93 and 101: delete the pending entry and return.
ExDeleteState(n, ok) ==
    /\ ex[n].pc = "del"
    /\ ok \/ CanFail
    /\ pending_orders' = delete_state(pending_orders, ex[n].req.client_order_id, ok)
    /\ ex' = [ex EXCEPT ![n].pc = "done"]
    /\ failures' = IF ok THEN failures ELSE failures + 1
    /\ UNCHANGED <<now, positions, rm, orders, mon, watched_symbols, checks,
                   trade_log, events>>
    /\ UNCHANGED outside

(***************************************************************************)
(* Monitor (bots/monitor.py): execution reports.                           *)
(***************************************************************************)
NonFillStatuses == {"CANCELED", "REJECTED", "EXPIRED"}

\* The task _handle_user_data_message starts for a FILLED report
\* (monitor.py:76-77, 90-102).
FillTask(o, fill_price) ==
    [order |-> o, c |-> orders[o].req.client_order_id,
     s |-> orders[o].req.symbol, S |-> orders[o].req.side,
     L |-> fill_price, q |-> orders[o].req.quantity,
     pc |-> "get_pending", order_req |-> None, old_pos |-> None,
     kind |-> "", db |-> "", rows |-> 0]

\* The exchange fills order o and pushes the FILLED execution report.
ExchangeFill(o, fill_price) ==
    /\ streams["user_data"].pc = "listening"
    /\ orders[o].status = "NEW"
    /\ orders' = [orders EXCEPT ![o].status = "FILLED"]
    /\ mon' = Append(mon, FillTask(o, fill_price))
    /\ UNCHANGED <<now, failures, positions, pending_orders, rm, ex,
                   watched_symbols, checks, trade_log, events>>
    /\ UNCHANGED outside


\* Mutant: the report of an order that ended without a fill also deletes the
\* Position of its symbol.
MonTerminalReport_drops_position(o, status, ok) ==
    /\ streams["user_data"].pc = "listening"
    /\ orders[o].status = "NEW"
    /\ ok \/ CanFail
    /\ orders' = [orders EXCEPT ![o].status = status]
    /\ pending_orders' =
           delete_state(pending_orders, orders[o].req.client_order_id, ok)
    /\ positions' = delete_state(positions, orders[o].req.symbol, ok)
    /\ failures' = IF ok THEN failures ELSE failures + 1
    /\ UNCHANGED <<now, rm, ex, mon, watched_symbols, checks,
                   trade_log, events>>
    /\ UNCHANGED outside

\* monitor.py:78-85: the exchange ends order o without a fill; the handler
\* deletes its pending entry and nothing else.
MonTerminalReport(o, status, ok) ==
    /\ streams["user_data"].pc = "listening"
    /\ orders[o].status = "NEW"
    /\ ok \/ CanFail
    /\ orders' = [orders EXCEPT ![o].status = status]
    /\ pending_orders' =
           delete_state(pending_orders, orders[o].req.client_order_id, ok)
    /\ failures' = IF ok THEN failures ELSE failures + 1
    /\ UNCHANGED <<now, positions, rm, ex, mon, watched_symbols, checks,
                   trade_log, events>>
    /\ UNCHANGED outside

\* A finished fill task keeps only what it did: how the fill was handled,
\* whether the database took the row, and the rows the table grew by.
FillDone(t, kind) ==
    [t EXCEPT !.pc = "done", !.kind = kind, !.order_req = None, !.old_pos = None]


\* Mutant: a fill with no pending entry still puts its symbol on watch.
MonGetPending_watches_unmatched(m, ok) ==
    /\ mon[m].pc = "get_pending"
    /\ ok \/ CanFail
    /\ LET cached == get_state(pending_orders, mon[m].c, ok) IN
       /\ mon' = [mon EXCEPT ![m] =
                     IF cached = None THEN FillDone(@, "unmatched")
                     ELSE [@ EXCEPT !.pc = "del_pending", !.order_req = cached]]
       /\ watched_symbols' = IF cached = None
                                THEN watched_symbols \cup {mon[m].s}
                                ELSE watched_symbols
    /\ failures' = IF ok THEN failures ELSE failures + 1
    /\ UNCHANGED <<now, positions, pending_orders, rm, ex, orders,
                   checks, trade_log, events>>
    /\ UNCHANGED outside

\* monitor.py:104-114: look the order up in pending_orders; give up if it
\* is not there (or could not be read).
MonGetPending(m, ok) ==
    /\ mon[m].pc = "get_pending"
    /\ ok \/ CanFail
    /\ LET cached == get_state(pending_orders, mon[m].c, ok) IN
       mon' = [mon EXCEPT ![m] =
                  IF cached = None THEN FillDone(@, "unmatched")
                  ELSE [@ EXCEPT !.pc = "del_pending", !.order_req = cached]]
    /\ failures' = IF ok THEN failures ELSE failures + 1
    /\ UNCHANGED <<now, positions, pending_orders, rm, ex, orders,
                   watched_symbols, checks, trade_log, events>>
    /\ UNCHANGED outside


\* Mutant: the side alone tells an entry from an exit.
IsEntry_side_only(order_side, order_req) == order_side = order_req.side

\* monitor.py:126-127: the entry-or-exit discriminator.
IsEntry(order_side, order_req) ==
    order_side = order_req.side /\ order_req.sl_price # None

\* monitor.py:116-127 and 146-148: delete the pending entry, then classify
\* the fill.
MonDeletePending(m, ok) ==
    /\ mon[m].pc = "del_pending"
    /\ ok \/ CanFail
    /\ pending_orders' = delete_state(pending_orders, mon[m].c, ok)
    /\ mon' = [mon EXCEPT ![m].pc =
                  IF IsEntry(mon[m].S, mon[m].order_req[1]) THEN "set_position"
                  ELSE "get_position"]
    /\ failures' = IF ok THEN failures ELSE failures + 1
    /\ UNCHANGED <<now, positions, rm, ex, orders, watched_symbols, checks,
                   trade_log, events>>
    /\ UNCHANGED outside

\* Mutant: stop and target of the request are taken for each other.
NewPosition_swapped(t) ==
    [symbol |-> t.s, side |-> t.S, quantity |-> t.q, entry_price |-> t.L,
     sl_price |-> t.order_req[1].tp_price[1], tp_price |-> t.order_req[1].sl_price]

\* monitor.py:130-135.
NewPosition(t) ==
    [symbol |-> t.s, side |-> t.S, quantity |-> t.q, entry_price |-> t.L,
     sl_price |-> t.order_req[1].sl_price[1], tp_price |-> t.order_req[1].tp_price]

\* monitor.py:137-144: write the Position, watch the symbol and publish
\* position_opened; if set_state raises, unwatch the symbol instead.
MonSetPosition(m, ok, pub_ok) ==
    /\ mon[m].pc = "set_position"
    /\ LET nfail == (IF ok THEN 0 ELSE 1) + (IF pub_ok THEN 0 ELSE 1)
           new_position == NewPosition(mon[m])
           raised == state_call_raises(ok)
       IN
       /\ nfail = 0 \/ (failures + nfail <= MaxFailures /\ Stimuli + nfail <= MaxStimuli)
       /\ failures' = failures + nfail
       /\ positions' = set_state(positions, mon[m].s, new_position, ok)
       /\ watched_symbols' = IF raised THEN watched_symbols \ {mon[m].s}
                                       ELSE watched_symbols \cup {mon[m].s}
       /\ events' = IF ~raised /\ pub_ok
                       THEN events \cup {[topic |-> "position_opened", by |-> m,
                                          symbol |-> new_position.symbol,
                                          entry_price |-> new_position.entry_price,
                                          quantity |-> new_position.quantity]}
                       ELSE events
    /\ mon' = [mon EXCEPT ![m] = FillDone(@, "entry")]
    /\ UNCHANGED <<now, pending_orders, rm, ex, orders, checks, trade_log>>
    /\ UNCHANGED outside


\* Mutant: an exit fill that finds no Position makes one up from the fill.
MonGetPosition_heals(m, ok) ==
    /\ mon[m].pc = "get_position"
    /\ ok \/ CanFail
    /\ LET old_pos == get_state(positions, mon[m].s, ok) IN
       /\ mon' = [mon EXCEPT ![m] =
                     IF old_pos = None THEN FillDone(@, "exit_no_position")
                     ELSE [@ EXCEPT !.pc = "del_position", !.old_pos = old_pos]]
       /\ positions' =
              IF old_pos = None
                 THEN Put(positions, mon[m].s,
                          [symbol |-> mon[m].s, side |-> mon[m].S,
                           quantity |-> mon[m].q, entry_price |-> mon[m].L,
                           sl_price |-> mon[m].L, tp_price |-> None])
                 ELSE positions
    /\ failures' = IF ok THEN failures ELSE failures + 1
    /\ UNCHANGED <<now, pending_orders, rm, ex, orders,
                   watched_symbols, checks, trade_log, events>>
    /\ UNCHANGED outside

\* monitor.py:150-159: read the open Position of the symbol; give up if
\* there is none (or it could not be read).
MonGetPosition(m, ok) ==
    /\ mon[m].pc = "get_position"
    /\ ok \/ CanFail
    /\ LET old_pos == get_state(positions, mon[m].s, ok) IN
       mon' = [mon EXCEPT ![m] =
                  IF old_pos = None THEN FillDone(@, "exit_no_position")
                  ELSE [@ EXCEPT !.pc = "del_position", !.old_pos = old_pos]]
    /\ failures' = IF ok THEN failures ELSE failures + 1
    /\ UNCHANGED <<now, positions, pending_orders, rm, ex, orders,
                   watched_symbols, checks, trade_log, events>>
    /\ UNCHANGED outside

\* Mutant: the delete names the pending_orders collection instead.
MonDeletePosition_wrong_collection(m, ok) ==
    /\ mon[m].pc = "del_position"
    /\ ok \/ CanFail
    /\ pending_orders' = delete_state(pending_orders, mon[m].s, ok)
    /\ mon' = [mon EXCEPT ![m].pc = "log_trade"]
    /\ failures' = IF ok THEN failures ELSE failures + 1
    /\ UNCHANGED <<now, positions, rm, ex, orders, watched_symbols,
                   checks, trade_log, events>>
    /\ UNCHANGED outside

\* monitor.py:161-165: delete the Position.
MonDeletePosition(m, ok) ==
    /\ mon[m].pc = "del_position"
    /\ ok \/ CanFail
    /\ positions' = delete_state(positions, mon[m].s, ok)
    /\ mon' = [mon EXCEPT ![m].pc = "log_trade"]
    /\ failures' = IF ok THEN failures ELSE failures + 1
    /\ UNCHANGED <<now, pending_orders, rm, ex, orders, watched_symbols,
                   checks, trade_log, events>>
    /\ UNCHANGED outside

\* Mutant: the P/L of a long position, whatever the side.
TradeLogData_long_only(t) ==
    LET old_pos == t.old_pos[1]
        pnl == (t.L - old_pos.entry_price) * old_pos.quantity
        entry_value == old_pos.entry_price * old_pos.quantity
    IN [symbol |-> t.s, side |-> old_pos.side, quantity |-> old_pos.quantity,
        entry_price |-> old_pos.entry_price, exit_price |-> t.L, pnl |-> pnl,
        pnl_percent |-> IF entry_value # 0 THEN <<pnl * 100, entry_value>>
                                           ELSE <<0, 1>>]

\* monitor.py:167-180: realised P/L of the closed position.  pnl_percent is
\* kept as the exact fraction <<numerator, denominator>>.
TradeLogData(t) ==
    LET old_pos == t.old_pos[1]
        pnl == IF old_pos.side = "BUY"
                  THEN (t.L - old_pos.entry_price) * old_pos.quantity
                  ELSE (old_pos.entry_price - t.L) * old_pos.quantity
        entry_value == old_pos.entry_price * old_pos.quantity
    IN [symbol |-> t.s, side |-> old_pos.side, quantity |-> old_pos.quantity,
        entry_price |-> old_pos.entry_price, exit_price |-> t.L, pnl |-> pnl,
        pnl_percent |-> IF entry_value # 0 THEN <<pnl * 100, entry_value>>
                                           ELSE <<0, 1>>]

\* Mutant: the row is added to the session twice.
log_trade_to_db_twice(trade_data, ok) ==
    IF ok THEN Append(Append(trade_log, trade_data), trade_data) ELSE trade_log

\* database.py:79-102: append the row; a database error is logged and
\* swallowed and appends nothing.
log_trade_to_db(trade_data, ok) ==
    IF ok THEN Append(trade_log, trade_data) ELSE trade_log

\* monitor.py:167-190: log the trade and publish position_closed.
MonLogTrade(m, db_ok, pub_ok) ==
    /\ mon[m].pc = "log_trade"
    /\ LET nfail == (IF db_ok THEN 0 ELSE 1) + (IF pub_ok THEN 0 ELSE 1)
           trade_log_data == TradeLogData(mon[m])
       IN
       /\ nfail = 0 \/ (failures + nfail <= MaxFailures /\ Stimuli + nfail <= MaxStimuli)
       /\ failures' = failures + nfail
       /\ trade_log' = log_trade_to_db(trade_log_data, db_ok)
       /\ events' = IF pub_ok
                       THEN events \cup {[topic |-> "position_closed", by |-> m,
                                          symbol |-> trade_log_data.symbol,
                                          entry_price |-> trade_log_data.entry_price,
                                          quantity |-> trade_log_data.quantity]}
                       ELSE events
       /\ mon' = [mon EXCEPT ![m] =
                     [FillDone(@, "exit") EXCEPT
                         !.db = IF db_ok THEN "ok" ELSE "failed",
                         !.rows = Len(trade_log') - Len(trade_log)]]
    /\ UNCHANGED <<now, positions, pending_orders, rm, ex, orders,
                   watched_symbols, checks>>
    /\ UNCHANGED outside

(***************************************************************************)
(* Monitor (bots/monitor.py): market ticks.                                *)
(***************************************************************************)
\* monitor.py:210-221: a tick for a watched symbol starts a check task.
MarketTick(s, price) ==
    /\ streams["market_data"].pc = "listening"
    /\ Len(checks) < MaxTicks
    /\ Stimuli < MaxStimuli
    /\ s \in watched_symbols
    /\ checks' = Append(checks, [symbol |-> s, price |-> price, pc |-> "get",
                                  log |-> "none"])
    /\ UNCHANGED <<now, failures, positions, pending_orders, rm, ex, orders,
                   mon, watched_symbols, trade_log, events>>
    /\ UNCHANGED outside


\* Mutant: every position is compared as a long one.
TriggerExit_long_only(pos, current_price) ==
    \/ current_price <= pos.sl_price
    \/ pos.tp_price # None /\ pos.tp_price[1] # 0
                           /\ current_price >= pos.tp_price[1]

\* monitor.py:258-266: has the price crossed the stop or the target?
TriggerExit(pos, current_price) ==
    IF pos.side = "BUY"
       THEN \/ current_price <= pos.sl_price
            \/ pos.tp_price # None /\ pos.tp_price[1] # 0
                                   /\ current_price >= pos.tp_price[1]
       ELSE \/ current_price >= pos.sl_price
            \/ pos.tp_price # None /\ pos.tp_price[1] # 0
                                   /\ current_price <= pos.tp_price[1]

\* Mutant: the exit request keeps the side of the position.
ExitOrderRequest_same_side(pos, symbol, t) ==
    [symbol |-> symbol, side |-> pos.side,
     order_type |-> "MARKET", quantity |-> pos.quantity,
     client_order_id |-> ExitClientOrderId(pos.side, symbol, t),
     price |-> None, sl_price |-> None, tp_price |-> None]

\* monitor.py:280-289.
ExitOrderRequest(pos, symbol, t) ==
    [symbol |-> symbol, side |-> IF pos.side = "BUY" THEN "SELL" ELSE "BUY",
     order_type |-> "MARKET", quantity |-> pos.quantity,
     client_order_id |-> ExitClientOrderId(pos.side, symbol, t),
     price |-> None, sl_price |-> None, tp_price |-> None]

\* Does RedisEventBus.publish raise into its caller?  Never:
\* event_bus.py:40-41 logs the exception at level error and returns.
publish_raises(ok) == FALSE

\* Mutant: the trigger does not look at the watch-set.
StillWatched_unchecked(symbol) == TRUE

\* monitor.py:274: is the symbol still in the watch-set when the trigger
\* fires?  Nothing is awaited between this test and the removal.
StillWatched(symbol) == symbol \in watched_symbols

\* A finished check keeps only the last line its handler logged: none,
\* the debug line of monitor.py:277, the info line of 293 or the critical
\* line of 295-299.
CheckDone(log) == [symbol |-> "", price |-> 0, pc |-> "done", log |-> log]

\* monitor.py:230-302: read the Position; unwatch the symbol if the read
\* returns none (a failed read does: get_state swallows the failure and
\* returns None); on a crossed stop or target unwatch it, unless it is
\* unwatched already, and publish the exit request.  (The pnl_update publish
\* of lines 245-256 is fire-and-forget and touches nothing the model holds.)
CheckPositionSlTp(k, t, ok, pub_ok) ==
    /\ checks[k].pc = "get"
    /\ ClockReads(t)
    /\ LET symbol == checks[k].symbol
           pos_data == get_state(positions, symbol, ok)
           found == ok /\ pos_data # None
           trigger == found /\ TriggerExit(pos_data[1], checks[k].price)
           publishes == trigger /\ StillWatched(symbol)
           nfail == (IF ok THEN 0 ELSE 1) + (IF pub_ok THEN 0 ELSE 1)
       IN
       /\ pub_ok \/ publishes
       /\ now' = IF publishes THEN t ELSE now
       /\ publishes \/ t = now
       /\ nfail = 0 \/ (failures + nfail <= MaxFailures /\ Stimuli + nfail <= MaxStimuli)
       /\ failures' = failures + nfail
       /\ watched_symbols' =
              IF pos_data = None \/ trigger
                 THEN watched_symbols \ {symbol} ELSE watched_symbols
       /\ ex' = IF publishes
                   THEN PublishOrderRequest(
                            ExitOrderRequest(pos_data[1], symbol, t),
                            <<"Monitor", k>>, pub_ok)
                   ELSE ex
       /\ checks' = [checks EXCEPT ![k] =
                         CheckDone(IF ~trigger THEN "none"
                                   ELSE IF ~publishes THEN "debug_not_watched"
                                   ELSE IF publish_raises(pub_ok)
                                           THEN "critical_publish_failed"
                                   ELSE "info_published")]
    /\ UNCHANGED <<positions, pending_orders, rm, orders, mon,
                   trade_log, events>>
    /\ UNCHANGED outside

(***************************************************************************)
(* Monitor (bots/monitor.py): the listeners of the exchange push streams.  *)
(***************************************************************************)
Streams == {"user_data", "market_data"}

\* monitor.py:67 and 206: asyncio.sleep(10) before the relaunch.
STREAM_RESTART_DELAY == 10

\* run() has launched the listener and its socket is open.
Listening == [pc |-> "listening", restarts |-> 0, delay |-> 0]

\* monitor.py:62-67 and 201-206: the socket raises; the listener logs it
\* and sleeps.
StreamFails(s) ==
    /\ streams[s].pc = "listening"
    /\ streams[s].restarts < MaxRestarts
    /\ streams' = [streams EXCEPT ![s].pc = "backoff",
                                  ![s].delay = STREAM_RESTART_DELAY]
    /\ UNCHANGED <<now, failures, positions, pending_orders, rm, ex, orders, mon,
                   watched_symbols, checks, trade_log, events,
                   filters, sizing, signals_out, mon_run, rounding, mon_starts>>

\* monitor.py:68 and 207: the sleep is over; a new listener task is created
\* and the old one returns.
StreamRelaunch(s) ==
    /\ streams[s].pc = "backoff"
    /\ streams' = [streams EXCEPT ![s].pc = "starting", ![s].restarts = @ + 1]
    /\ UNCHANGED <<now, failures, positions, pending_orders, rm, ex, orders, mon,
                   watched_symbols, checks, trade_log, events,
                   filters, sizing, signals_out, mon_run, rounding, mon_starts>>

\* monitor.py:60-64 and 199-203: the new task gets the socket manager and
\* opens the socket.
ListenerStarts(s) ==
    /\ streams[s].pc = "starting"
    /\ streams' = [streams EXCEPT ![s].pc = "listening"]
    /\ UNCHANGED <<now, failures, positions, pending_orders, rm, ex, orders, mon,
                   watched_symbols, checks, trade_log, events,
                   filters, sizing, signals_out, mon_run, rounding, mon_starts>>

\* monitor.py:60 and 199: get_socket_manager() is called before the try
\* block; if it raises, the task ends with the exception and nothing
\* relaunches it.
ListenerStartRaises(s) ==
    /\ streams[s].pc = "starting"
    /\ streams' = [streams EXCEPT ![s].pc = "dead"]
    /\ UNCHANGED <<now, failures, positions, pending_orders, rm, ex, orders, mon,
                   watched_symbols, checks, trade_log, events,
                   filters, sizing, signals_out, mon_run, rounding, mon_starts>>

(***************************************************************************)
(* Monitor (bots/monitor.py): startup after a restart.  The positions      *)
(* collection outlives the process.                                        *)
(***************************************************************************)
\* The fields Position (core/types.py:72-83) requires.
PositionFields ==
    {"symbol", "side", "quantity", "entry_price", "sl_price", "tp_price"}

\* A Position an earlier Monitor process wrote for symbol s.
PersistedPosition(s, sd) ==
    [symbol |-> s, side |-> sd, quantity |-> 33, entry_price |-> 200,
     sl_price |-> IF sd = "BUY" THEN 194 ELSE 206,
     tp_price |-> Some(IF sd = "BUY" THEN 212 ELSE 188)]

\* Data under a key of the collection that is no Position.
CorruptPosition == [corrupt |-> TRUE]

\* What the positions collection can hold when the Monitor starts.
PersistedCases ==
    LET Entries(s) == {<<>>} \cup {Put(<<>>, s, CorruptPosition)}
                          \cup {Put(<<>>, s, PersistedPosition(s, sd)) : sd \in OrderSide}
        Merge(f, g) == [x \in DOMAIN f \cup DOMAIN g |->
                           IF x \in DOMAIN f THEN f[x] ELSE g[x]]
    IN {Merge(f, g) : f \in Entries("BTCUSDT"), g \in Entries("ETHUSDT")}

\* run() has created no listener task yet.
Unstarted == [pc |-> "unstarted", restarts |-> 0, delay |-> 0]

\* Mutant: every key of the collection passes for a Position.
model_validate_position_any(pos_data) == TRUE

\* monitor.py:49: Position.model_validate_json raises on anything else.
model_validate_position(pos_data) == PositionFields \subseteq DOMAIN pos_data

\* monitor.py:42-55: read the positions collection and watch every symbol
\* whose data is a Position.  A failed read comes back from the state
\* manager as {} (state_manager.py:92-94), not as an exception.
LoadInitialPositions(ok) ==
    /\ mon_run = "loading"
    /\ ok \/ CanFail
    /\ LET stored == get_collection(positions, ok) IN
       watched_symbols' =
           watched_symbols
               \cup {s \in DOMAIN stored : model_validate_position(stored[s])}
    /\ mon_run' = "loaded"
    /\ failures' = IF ok THEN failures ELSE failures + 1
    /\ UNCHANGED <<now, positions, pending_orders, rm, ex, orders, mon, checks,
                   trade_log, events, filters, sizing, streams, signals_out,
                   rounding, mon_starts>>

\* monitor.py:308-311: after the load, create the two listener tasks.
RunListeners ==
    /\ mon_run = "loaded"
    /\ streams' = [s \in Streams |-> Listening]
    /\ mon_run' = "running"
    /\ UNCHANGED <<now, failures, positions, pending_orders, rm, ex, orders, mon,
                   watched_symbols, checks, trade_log, events, filters, sizing,
                   signals_out, rounding, mon_starts>>


\* The trading service ends and is started again (run_trading.py:62-80: the
\* bots are constructed anew, the Monitor with an empty watch-set,
\* monitor.py:39, and run).  Every task of the old process ends with it; the
\* state store, the database and the orders at the exchange stay.
MonitorRestarts ==
    /\ mon_run = "running"
    /\ mon_starts < MaxMonitorStarts
    /\ mon_starts' = mon_starts + 1
    /\ mon_run' = "loading"
    /\ watched_symbols' = {}
    /\ streams' = [s \in Streams |-> Unstarted]
    /\ mon' = [m \in DOMAIN mon |->
                  IF mon[m].pc = "done" THEN mon[m] ELSE FillDone(mon[m], "killed")]
    /\ checks' = [k \in DOMAIN checks |->
                     IF checks[k].pc = "done" THEN checks[k] ELSE CheckDone("none")]
    /\ ex' = [n \in DOMAIN ex |-> [ex[n] EXCEPT !.pc = "done"]]
    /\ UNCHANGED <<now, failures, positions, pending_orders, rm, orders,
                   trade_log, events, filters, sizing, signals_out, rounding>>

(***************************************************************************)
(* Strategist (bots/strategist.py): the publish of an approved signal.     *)
(***************************************************************************)
\* strategist.py:285: the topic the approved TradeSignal is published on.
StrategistTopic == "order_request"

\* strategist.py:278-287: the agent approves a signal and the Strategist
\* publishes it; a failed publish is swallowed by the event bus.
StrategistApproves(s, sd, ok) ==
    /\ Stimuli < MaxStimuli
    /\ Len(signals_out) < MaxSignals
    /\ ok \/ CanFail
    /\ signals_out' = Append(signals_out,
                             [topic |-> StrategistTopic, symbol |-> s, side |-> sd,
                              pc |-> IF ok THEN "sent" ELSE "lost"])
    /\ failures' = IF ok THEN failures ELSE failures + 1
    /\ UNCHANGED <<now, positions, pending_orders, rm, ex, orders, mon,
                   watched_symbols, checks, trade_log, events,
                   filters, sizing, streams, mon_run, rounding, mon_starts>>

\* executor.py:41-42 and 95-101: a TradeSignal delivered on order_request is
\* no OrderRequest; validation raises before any id is known, the handler
\* logs it and touches nothing.
ExInvalidMessage(j) ==
    /\ signals_out[j].pc = "sent"
    /\ signals_out[j].topic = "order_request"
    /\ signals_out' = [signals_out EXCEPT ![j].pc = "rejected"]
    /\ UNCHANGED <<now, failures, positions, pending_orders, rm, ex, orders, mon,
                   watched_symbols, checks, trade_log, events,
                   filters, sizing, streams, mon_run, rounding, mon_starts>>

\* The bots are constructed and running, whatever filters were loaded.
Started ==
    /\ now = 0
    /\ failures = 0
    /\ positions = <<>>
    /\ pending_orders = <<>>
    /\ rm = [i \in 1..MaxSignals |-> IdleSignal]
    /\ ex = <<>>
    /\ orders = <<>>
    /\ mon = <<>>
    /\ watched_symbols = {}
    /\ checks = <<>>
    /\ trade_log = <<>>
    /\ events = {}
    /\ sizing = IdleSizing
    /\ streams = [s \in Streams |-> Listening]
    /\ signals_out = <<>>
    /\ mon_run = "running"
    /\ rounding = IdleRounding
    /\ mon_starts = 1

Init == Started /\ filters = LoadedFilters

Next ==
    \/ \E i \in 1..MaxSignals, s \in Symbols, sd \in OrderSide, ok \in BOOLEAN :
           TradeSignal(i, s, sd, ok)
    \/ \E i \in 1..MaxSignals, k \in KlineCases, b \in Balances, t \in 0..MaxTime,
          ok \in BOOLEAN : RMSizeAndPublish(i, k, b, t, ok)
    \/ \E n \in DOMAIN ex, ok \in BOOLEAN : ExSetState(n, ok)
    \/ \E n \in DOMAIN ex : ExCreateOrder(n)
    \/ \E n \in DOMAIN ex : ExCreateOrderFails(n)
    \/ \E n \in DOMAIN ex, ok \in BOOLEAN : ExDeleteState(n, ok)
    \/ \E o \in DOMAIN orders, p \in FillPrices : ExchangeFill(o, p)
    \/ \E o \in DOMAIN orders, st \in NonFillStatuses, ok \in BOOLEAN :
           MonTerminalReport(o, st, ok)
    \/ \E m \in DOMAIN mon, ok \in BOOLEAN : MonGetPending(m, ok)
    \/ \E m \in DOMAIN mon, ok \in BOOLEAN : MonDeletePending(m, ok)
    \/ \E m \in DOMAIN mon, ok \in BOOLEAN, pub_ok \in BOOLEAN :
           MonSetPosition(m, ok, pub_ok)
    \/ \E m \in DOMAIN mon, ok \in BOOLEAN : MonGetPosition(m, ok)
    \/ \E m \in DOMAIN mon, ok \in BOOLEAN : MonDeletePosition(m, ok)
    \/ \E m \in DOMAIN mon, db_ok \in BOOLEAN, pub_ok \in BOOLEAN :
           MonLogTrade(m, db_ok, pub_ok)
    \/ \E s \in Symbols, p \in TickPrices : MarketTick(s, p)
    \/ \E k \in DOMAIN checks, t \in 0..MaxTime, ok \in BOOLEAN, pub_ok \in BOOLEAN :
           CheckPositionSlTp(k, t, ok, pub_ok)

Spec == Init /\ [][Next]_vars

\* The sizing of one signal on its own, over every set of filters and every
\* answer of the exchange.
SizingInit == Started /\ filters \in FilterCases

SizingNext ==
    \E sd \in OrderSide, k \in SizingKlineCases, account \in AccountCases :
        SizeSignal(sd, k, account)

SizingSpec == SizingInit /\ [][SizingNext]_vars

\* The adjustments of SymbolFilters on their own, over every set of filters.
RoundingNext ==
    \/ \E q \in Quantities : AdjustQuantity(q)
    \/ \E p \in Prices : AdjustPrice(p)

RoundingSpec == SizingInit /\ [][RoundingNext]_vars

\* The Executor on its own, over every OrderRequest the topic can carry.
ExecutorNext ==
    \/ \E req \in OrderRequestCases : OrderRequestArrives(req)
    \/ \E n \in DOMAIN ex, ok \in BOOLEAN : ExSetState(n, ok)
    \/ \E n \in DOMAIN ex : ExCreateOrder(n)
    \/ \E n \in DOMAIN ex : ExCreateOrderFails(n)
    \/ \E n \in DOMAIN ex, ok \in BOOLEAN : ExDeleteState(n, ok)

ExecutorSpec == Init /\ [][ExecutorNext]_vars

\* The path of a signal: Strategist, Risk Manager, Executor.
SignalNext ==
    \/ \E s \in Symbols, sd \in OrderSide, ok \in BOOLEAN : StrategistApproves(s, sd, ok)
    \/ \E j \in DOMAIN signals_out : ExInvalidMessage(j)
    \/ \E i \in 1..MaxSignals, s \in Symbols, sd \in OrderSide, ok \in BOOLEAN :
           TradeSignal(i, s, sd, ok)
    \/ \E i \in 1..MaxSignals, k \in KlineCases, b \in Balances, t \in 0..MaxTime,
          ok \in BOOLEAN : RMSizeAndPublish(i, k, b, t, ok)
    \/ \E n \in DOMAIN ex, ok \in BOOLEAN : ExSetState(n, ok)
    \/ \E n \in DOMAIN ex : ExCreateOrder(n)
    \/ \E n \in DOMAIN ex : ExCreateOrderFails(n)
    \/ \E n \in DOMAIN ex, ok \in BOOLEAN : ExDeleteState(n, ok)

SignalSpec == Init /\ [][SignalNext]_vars

\* The stream listeners on their own.  The event loop runs every task that
\* is ready: a sleep that is over is followed by the relaunch, and a new
\* listener task runs its first statements.
StreamNext ==
    \/ \E s \in Streams : StreamFails(s)
    \/ \E s \in Streams : StreamRelaunch(s)
    \/ \E s \in Streams : ListenerStarts(s)
    \/ \E s \in Streams : ListenerStartRaises(s)

StreamSpec ==
    /\ Init
    /\ [][StreamNext]_vars
    /\ \A s \in Streams : WF_vars(StreamRelaunch(s)) /\ WF_vars(ListenerStarts(s))

\* A Monitor process starts over a positions collection that earlier
\* processes left behind, then handles ticks and the fills of its exits.
RestartInit ==
    /\ now = 0
    /\ failures = 0
    /\ positions \in PersistedCases
    /\ pending_orders = <<>>
    /\ rm = [i \in 1..MaxSignals |-> IdleSignal]
    /\ ex = <<>>
    /\ orders = <<>>
    /\ mon = <<>>
    /\ watched_symbols = {}
    /\ checks = <<>>
    /\ trade_log = <<>>
    /\ events = {}
    /\ filters = LoadedFilters
    /\ sizing = IdleSizing
    /\ streams = [s \in Streams |-> Unstarted]
    /\ signals_out = <<>>
    /\ mon_run = "loading"
    /\ rounding = IdleRounding
    /\ mon_starts = 1

RestartNext ==
    \/ \E ok \in BOOLEAN : LoadInitialPositions(ok)
    \/ RunListeners
    \/ \E s \in Symbols, p \in TickPrices : MarketTick(s, p)
    \/ \E k \in DOMAIN checks, t \in 0..MaxTime, ok \in BOOLEAN, pub_ok \in BOOLEAN :
           CheckPositionSlTp(k, t, ok, pub_ok)
    \/ \E n \in DOMAIN ex, ok \in BOOLEAN : ExSetState(n, ok)
    \/ \E n \in DOMAIN ex : ExCreateOrder(n)
    \/ \E o \in DOMAIN orders, p \in ExitPrices : ExchangeFill(o, p)
    \/ \E m \in DOMAIN mon, ok \in BOOLEAN : MonGetPending(m, ok)
    \/ \E m \in DOMAIN mon, ok \in BOOLEAN : MonDeletePending(m, ok)
    \/ \E m \in DOMAIN mon, ok \in BOOLEAN : MonGetPosition(m, ok)
    \/ \E m \in DOMAIN mon, ok \in BOOLEAN : MonDeletePosition(m, ok)
    \/ \E m \in DOMAIN mon, db_ok \in BOOLEAN, pub_ok \in BOOLEAN :
           MonLogTrade(m, db_ok, pub_ok)

RestartSpec == RestartInit /\ [][RestartNext]_vars



\* The tick checks on their own, over long and short positions and prices
\* below, between and above their stop and target.
TickNext ==
    \/ \E ok \in BOOLEAN : LoadInitialPositions(ok)
    \/ RunListeners
    \/ \E s \in Symbols, p \in ExitPrices : MarketTick(s, p)
    \/ \E k \in DOMAIN checks, t \in 0..MaxTime, ok \in BOOLEAN, pub_ok \in BOOLEAN :
           CheckPositionSlTp(k, t, ok, pub_ok)

TickSpec == RestartInit /\ [][TickNext]_vars

\* The same, with one restart of the service at any moment after the start.
CrashNext ==
    \/ \E ok \in BOOLEAN : LoadInitialPositions(ok)
    \/ RunListeners
    \/ MonitorRestarts
    \/ \E s \in Symbols, p \in TickPrices : MarketTick(s, p)
    \/ \E k \in DOMAIN checks, t \in 0..MaxTime, ok \in BOOLEAN, pub_ok \in BOOLEAN :
           CheckPositionSlTp(k, t, ok, pub_ok)
    \/ \E n \in DOMAIN ex, ok \in BOOLEAN : ExSetState(n, ok)
    \/ \E n \in DOMAIN ex : ExCreateOrder(n)
    \/ \E o \in DOMAIN orders, p \in FillPrices : ExchangeFill(o, p)
    \/ \E m \in DOMAIN mon, ok \in BOOLEAN : MonGetPending(m, ok)
    \/ \E m \in DOMAIN mon, ok \in BOOLEAN : MonDeletePending(m, ok)
    \/ \E m \in DOMAIN mon, ok \in BOOLEAN : MonGetPosition(m, ok)
    \/ \E m \in DOMAIN mon, ok \in BOOLEAN : MonDeletePosition(m, ok)
    \/ \E m \in DOMAIN mon, db_ok \in BOOLEAN, pub_ok \in BOOLEAN :
           MonLogTrade(m, db_ok, pub_ok)

CrashSpec == RestartInit /\ [][CrashNext]_vars


\* The way of an exit: the Monitor over the positions of the store, the
\* Executor, and the exchange, which fills the exit order or ends it without
\* a fill.  The event loop runs every task that is ready, the exchange
\* answers every order, and ticks keep coming.
ExitNext ==
    \/ \E ok \in BOOLEAN : LoadInitialPositions(ok)
    \/ RunListeners
    \/ \E s \in Symbols, p \in TickPrices : MarketTick(s, p)
    \/ \E k \in DOMAIN checks, t \in 0..MaxTime, ok \in BOOLEAN, pub_ok \in BOOLEAN :
           CheckPositionSlTp(k, t, ok, pub_ok)
    \/ \E n \in DOMAIN ex, ok \in BOOLEAN : ExSetState(n, ok)
    \/ \E n \in DOMAIN ex : ExCreateOrder(n)
    \/ \E n \in DOMAIN ex : ExCreateOrderFails(n)
    \/ \E n \in DOMAIN ex, ok \in BOOLEAN : ExDeleteState(n, ok)
    \/ \E o \in DOMAIN orders, p \in FillPrices : ExchangeFill(o, p)
    \/ \E o \in DOMAIN orders, st \in NonFillStatuses, ok \in BOOLEAN :
           MonTerminalReport(o, st, ok)
    \/ \E m \in DOMAIN mon, ok \in BOOLEAN : MonGetPending(m, ok)
    \/ \E m \in DOMAIN mon, ok \in BOOLEAN : MonDeletePending(m, ok)
    \/ \E m \in DOMAIN mon, ok \in BOOLEAN : MonGetPosition(m, ok)
    \/ \E m \in DOMAIN mon, ok \in BOOLEAN : MonDeletePosition(m, ok)
    \/ \E m \in DOMAIN mon, db_ok \in BOOLEAN, pub_ok \in BOOLEAN :
           MonLogTrade(m, db_ok, pub_ok)

ExitSpec == RestartInit /\ [][ExitNext]_vars /\ WF_vars(ExitNext)

(***************************************************************************)
(* The claims.                                                             *)
(***************************************************************************)
\* The step is one of Risk Manager handler i publishing an OrderRequest.
RiskManagerPublishes ==
    /\ Len(ex') = Len(ex) + 1
    /\ ex'[Len(ex')].by[1] = "RiskManager"

\* The requests published so far (the tasks e) carry pairwise different ids.
IdsDistinct(e) ==
    \A n, m \in DOMAIN e :
        n # m => e[n].req.client_order_id # e[m].req.client_order_id

\* create_order calls made with client order id c.
CreateCalls(c) ==
    LET with == {n \in DOMAIN ex : ex[n].req.client_order_id = c}
        Sum[S \in SUBSET with] ==
            IF S = {} THEN 0
            ELSE LET n == CHOOSE x \in S : TRUE IN ex[n].created + Sum[S \ {n}]
    IN Sum[with]

\* The Monitor has not yet looked at a terminal report of exchange order o.
Unprocessed(o) ==
    \/ orders[o].status = "NEW"
    \/ \E m \in DOMAIN mon : mon[m].order = o /\ mon[m].pc = "get_pending"

\* C1: the Executor calls create_order for a client order id only after its
\* write of the request to pending_orders has succeeded; a failed write ends
\* the handler without a call.
C1_CacheBeforeSend ==
    \A n \in DOMAIN ex : ex[n].created > 0 => ex[n].wrote

\* C2: two OrderRequests with the same client order id lead to at most one
\* call of create_order for that id (pending_orders, keyed by the id, holds
\* at most one entry for it by construction); stated for the runs without
\* any infrastructure failure.
C2_AtMostOneSubmission ==
    failures = 0 => \A n \in DOMAIN ex : CreateCalls(ex[n].req.client_order_id) <= 1

\* C3: while the positions collection holds MAX_CONCURRENT_TRADES entries, no
\* signal handler publishes an OrderRequest, whatever the interleaving of
\* signal handlers and fills.  Stated for the requests the cap is about, the
\* Risk Manager's (the Monitor's exit requests are what closes a position),
\* and for the runs without failures and without colliding client order ids.
C3_NoPublishAtCap ==
    [][(/\ Cardinality(DOMAIN positions) >= MAX_CONCURRENT_TRADES
        /\ failures' = 0
        /\ IdsDistinct(ex'))
           => ~RiskManagerPublishes]_vars

\* C7: every order the exchange has accepted and whose terminal report the
\* Monitor has not yet processed has an entry in pending_orders under its
\* client order id.
C7_AcceptedOrderIsTracked ==
    \A o \in DOMAIN orders :
        Unprocessed(o) => orders[o].req.client_order_id \in DOMAIN pending_orders

\* C8: when the Monitor applies an entry fill for a symbol, no Position for
\* that symbol is in the positions collection: an entry fill never overwrites
\* an open Position.  Stated for the runs without failures and without
\* colliding client order ids.
C8_EntryFillNeverOverwrites ==
    [][\A m \in DOMAIN mon :
           (/\ mon[m].pc = "set_position" /\ mon'[m].pc = "done"
            /\ failures' = 0
            /\ IdsDistinct(ex))
               => mon[m].s \notin DOMAIN positions]_vars

\* C9: any two distinct OrderRequests published on order_request carry
\* different client order ids, also when no infrastructure failure occurs.
C9_ClientOrderIdsDistinct == failures = 0 => IdsDistinct(ex)

PublishedBy(e, i) ==
    Cardinality({n \in DOMAIN e : e[n].by = <<"RiskManager", i>>})

\* C10: handling one TradeSignal publishes at most one OrderRequest, and no
\* step of a signal handler writes to the state store.
C10_OnePublishNoStoreWrite ==
    [][rm' # rm =>
           /\ positions' = positions
           /\ pending_orders' = pending_orders
           /\ \A i \in DOMAIN rm : PublishedBy(ex', i) <= 1]_vars

C10_Witness ==
    \E i, j \in DOMAIN rm :
        /\ rm[i].pc = "done" /\ rm[i].published = 1 /\ PublishedBy(ex, i) = 1
        /\ rm[j].pc = "done" /\ rm[j].published = 0 /\ PublishedBy(ex, j) = 0
        /\ positions = <<>> /\ pending_orders = <<>>
\* C11: every approved order has its stop and its target, as rounded to the
\* price tick, on opposite sides of the reference price: sl < price < tp for
\* a BUY, tp < price < sl for a SELL.
C11_StopAndTargetStraddlePrice ==
    sizing.order # None =>
        LET o == sizing.order[1] IN
        IF sizing.side = "BUY"
           THEN o.sl_price < o.current_price /\ o.current_price < o.tp_price
           ELSE o.tp_price < o.current_price /\ o.current_price < o.sl_price

\* C12: the quantity of every approved order is non-negative and a multiple
\* of the lot-size step of the symbol, and quantity x reference price is at
\* least the minimum notional of the symbol.
C12_LotStepAndMinNotional ==
    sizing.order # None =>
        LET o == sizing.order[1] IN
        /\ o.quantity >= 0
        /\ filters.stepSize # None =>
               /\ filters.stepSize[1] # 0
               /\ o.quantity % filters.stepSize[1] = 0
        /\ filters.minNotional # None =>
               o.quantity * o.current_price >= filters.minNotional[1]

\* An order exactly at the minimum notional is approved.
C12_Witness ==
    /\ sizing.order # None
    /\ filters = LoadedFilters
    /\ sizing.order[1].quantity * sizing.order[1].current_price = MinNotional

\* C13: a step that writes or deletes a key of the positions collection is a
\* step of a Monitor fill task; no Risk Manager or Executor handler moves in
\* it.
C13_OnlyMonitorWritesPositions ==
    [][positions' # positions => (mon' # mon /\ rm' = rm /\ ex' = ex)]_vars

C13_Witness ==
    /\ positions # <<>>
    /\ \E i \in DOMAIN rm : rm[i].pc = "done" /\ rm[i].published = 1
    /\ \E n \in DOMAIN ex : ex[n].pc = "done" /\ ex[n].created = 1

\* What C14 says of the step in which fill task m applies an entry fill.
EntryFillApplied(m) ==
    LET s == mon[m].s IN
    /\ s \in DOMAIN positions'
    /\ positions'[s].entry_price = mon[m].L
    /\ positions'[s].quantity = mon[m].q
    /\ Some(positions'[s].sl_price) = mon[m].order_req[1].sl_price
    /\ positions'[s].tp_price = mon[m].order_req[1].tp_price
    /\ s \in watched_symbols'
    /\ \E e \in events' :
           /\ e.topic = "position_opened" /\ e.by = m /\ e.symbol = s
           /\ e.entry_price = mon[m].L /\ e.quantity = mon[m].q

Crossed(pos, price) ==
    IF pos.side = "BUY"
       THEN price <= pos.sl_price \/ (pos.tp_price # None /\ price >= pos.tp_price[1])
       ELSE price >= pos.sl_price \/ (pos.tp_price # None /\ price <= pos.tp_price[1])

\* What C15 says of the step in which check task k handles its tick.
ExitRequested(k) ==
    LET s == checks[k].symbol
        pos == positions[s]
        req == ex'[Len(ex')].req
    IN /\ s \notin watched_symbols'
       /\ Len(ex') = Len(ex) + 1
       /\ ex'[Len(ex')].by = <<"Monitor", k>>
       /\ req.symbol = s
       /\ req.side # pos.side
       /\ req.quantity = pos.quantity
       /\ req.sl_price = None /\ req.tp_price = None

C16_NoOrderWithoutAtr ==
    sizing.klines \in {"none", "nan", "zero"} => sizing.order = None

\* C17: with a free quote balance of zero or less, with no quote asset in
\* the account or with a failed account fetch, the handler approves no
\* order.
C17_NoOrderWithoutBalance ==
    (sizing.pc = "sized" /\ (sizing.account.kind # "ok" \/ sizing.account.free <= 0))
        => sizing.order = None

\* The exchange answered with usable candles and usual filters; only the
\* account fetch failed.
C17_Witness ==
    /\ sizing.pc = "sized"
    /\ sizing.klines = "ok"
    /\ filters = LoadedFilters
    /\ sizing.account.kind = "error"
    /\ sizing.order = None

\* C18: a signal handler whose read of the positions collection returns
\* MAX_CONCURRENT_TRADES entries or more ends at once: it publishes nothing
\* and never reaches the candle or balance fetch.
C18_CapGateShortCircuits ==
    [][\A i \in DOMAIN rm :
           (/\ rm[i].pc = "idle" /\ rm'[i].pc # "idle"
            /\ failures' = failures
            /\ Cardinality(DOMAIN positions) >= MAX_CONCURRENT_TRADES)
               => (rm'[i].pc = "done" /\ rm'[i].published = 0 /\ ex' = ex)]_vars

C18_Witness ==
    \E i, j \in DOMAIN rm :
        /\ Cardinality(DOMAIN positions) >= MAX_CONCURRENT_TRADES
        /\ rm[i].pc = "done" /\ rm[i].published = 1
        /\ rm[j].pc = "done" /\ rm[j].published = 0
        /\ Len(ex) = 1
        /\ failures = 0

\* C19: every signal the Strategist approves is published on trade_signal,
\* and everything published on order_request is an OrderRequest of the Risk
\* Manager or of the Monitor.
C19_TopicsCarryTheirMessages ==
    /\ \A j \in DOMAIN signals_out : signals_out[j].topic = "trade_signal"
    /\ \A n \in DOMAIN ex : ex[n].by[1] \in {"RiskManager", "Monitor"}

\* C20: whenever the listener of a push stream has failed, it is listening
\* again later, after the fixed delay, however often that has happened.
C20_StreamListenerRelaunched ==
    \A s \in Streams :
        (streams[s].pc = "backoff")
            ~> (streams[s].pc = "listening" /\ streams[s].delay = STREAM_RESTART_DELAY)

\* The step in which run() finishes _load_initial_positions.
LoadFinishes == mon_run = "loading" /\ mon_run' = "loaded"

\* The symbols of the collection whose data is a Position.
ValidPositions == {s \in DOMAIN positions : PositionFields \subseteq DOMAIN positions[s]}

RealizedPnl(row) ==
    IF row.side = "BUY" THEN (row.exit_price - row.entry_price) * row.quantity
                        ELSE (row.entry_price - row.exit_price) * row.quantity

\* C22, as claimed: every TradeLog row records that P/L, and as pnl_percent
\* the quotient of the P/L and entry price x quantity.
C22_PnlAndQuotient ==
    \A n \in DOMAIN trade_log :
        LET row == trade_log[n] IN
        /\ row.pnl = RealizedPnl(row)
        /\ row.pnl_percent[1] * (row.entry_price * row.quantity)
               = RealizedPnl(row) * row.pnl_percent[2]

\* C22, amended: every TradeLog row records that P/L, and as pnl_percent one
\* hundred times the quotient of the P/L and entry price x quantity.
C22_PnlAndPercentage ==
    \A n \in DOMAIN trade_log :
        LET row == trade_log[n] IN
        /\ row.pnl = RealizedPnl(row)
        /\ row.pnl_percent[2] # 0
        /\ row.pnl_percent[1] * (row.entry_price * row.quantity)
               = 100 * RealizedPnl(row) * row.pnl_percent[2]

\* A short position closed below its entry price: a gain.
C22_Witness ==
    \E n \in DOMAIN trade_log :
        /\ trade_log[n].side = "SELL"
        /\ trade_log[n].exit_price < trade_log[n].entry_price
        /\ trade_log[n].pnl > 0

\* Twice the price that lies 1.5 x ATR from the price p, on the side of the
\* stop of an order of side sd.
TwiceRawStop(sd, p, atr) ==
    IF sd = "BUY" THEN SL_ATR_MULTIPLIER_DEN * p - SL_ATR_MULTIPLIER_NUM * atr
                  ELSE SL_ATR_MULTIPLIER_DEN * p + SL_ATR_MULTIPLIER_NUM * atr

\* The price that lies 3 x ATR from the price p, on the side of the target.
RawTarget(sd, p, atr) ==
    IF sd = "BUY" THEN p + TP_ATR_MULTIPLIER * atr ELSE p - TP_ATR_MULTIPLIER * atr

\* x is what rounding the price twice_raw / 2 to the tick of the symbol can
\* give: the price itself without a tick, a nearest multiple with one.
NearestTick(x, twice_raw) ==
    IF filters.tickSize = None \/ filters.tickSize[1] = 0
       THEN 2 * x = twice_raw
       ELSE /\ x % filters.tickSize[1] = 0
            /\ Abs(2 * x - twice_raw) <= filters.tickSize[1]

\* q is the risk budget (balance x RISK_PER_TRADE_PERCENT) divided by the
\* risk per unit, rounded down to the lot step (to the quantity unit where
\* the symbol has no step).
BudgetOverRisk(q, balance, risk_per_unit) ==
    LET step == IF filters.stepSize = None THEN 1 ELSE filters.stepSize[1] IN
    /\ step # 0
    /\ q % step = 0
    /\ q * risk_per_unit * RISK_PER_TRADE_DEN <= balance * RISK_PER_TRADE_NUM
    /\ balance * RISK_PER_TRADE_NUM < (q + step) * risk_per_unit * RISK_PER_TRADE_DEN

\* C23, as claimed: an approved order has its stop 1.5 x ATR and its target
\* 3 x ATR away from the reference price, and its quantity is the risk budget
\* divided by |price - stop|, rounded down to the lot step.
C23_StopTargetAndQuantity ==
    (sizing.order # None /\ sizing.klines # "nan") =>
        LET o == sizing.order[1]
            atr == AtrOf(sizing.klines)
        IN /\ 2 * o.sl_price = TwiceRawStop(sizing.side, o.current_price, atr)
           /\ o.tp_price = RawTarget(sizing.side, o.current_price, atr)
           /\ BudgetOverRisk(o.quantity, sizing.account.free,
                             Abs(o.current_price - o.sl_price))

\* C23, amended: stop and target are the prices 1.5 x ATR and 3 x ATR away,
\* each rounded to the nearest price tick of the symbol, and the quantity is
\* the risk budget divided by the distance from the price to that rounded
\* stop, rounded down to the lot step.
C23_RoundedStopTargetAndQuantity ==
    (sizing.order # None /\ sizing.klines # "nan") =>
        LET o == sizing.order[1]
            atr == AtrOf(sizing.klines)
        IN /\ NearestTick(o.sl_price, TwiceRawStop(sizing.side, o.current_price, atr))
           /\ NearestTick(o.tp_price, 2 * RawTarget(sizing.side, o.current_price, atr))
           /\ BudgetOverRisk(o.quantity, sizing.account.free,
                             Abs(o.current_price - o.sl_price))

\* An approved order whose stop the tick rounding has moved.
C23_Witness ==
    /\ sizing.order # None
    /\ sizing.klines = "low"
    /\ filters = LoadedFilters
    /\ 2 * sizing.order[1].sl_price
           # TwiceRawStop(sizing.side, sizing.order[1].current_price, AtrOf("low"))
    /\ sizing.order[1].quantity > 0

\* C24: for a symbol with a lot-size step and a quantity q >= 0,
\* adjust_quantity_to_step returns the largest multiple of the step that does
\* not exceed q (zero when q is below one step), and returns that same value
\* when applied to its own result.
C24_QuantityRoundingIdempotent ==
    (rounding.op = "quantity" /\ filters.stepSize # None /\ rounding.input >= 0) =>
        LET step == filters.stepSize[1] IN
        /\ IF step = 0 THEN rounding.once = 0
                       ELSE /\ rounding.once % step = 0
                            /\ rounding.once <= rounding.input
                            /\ rounding.input < rounding.once + step
        /\ rounding.input < step => rounding.once = 0
        /\ rounding.twice = rounding.once

\* A quantity between two multiples of a step of several units.
C24_Witness ==
    /\ rounding.op = "quantity"
    /\ filters.stepSize = Some(5 * StepSize)
    /\ rounding.input > rounding.once
    /\ rounding.once > 0
    /\ rounding.twice = rounding.once

\* C25, as claimed: for a symbol with a tick size, adjust_price_to_tick
\* returns the multiple of the tick nearest to the price, an exact half going
\* to the multiple above.
C25_NearestTickHalvesUp ==
    (/\ rounding.op = "price"
     /\ filters.tickSize # None /\ filters.tickSize[1] # 0) =>
        LET tick == filters.tickSize[1] IN
        /\ rounding.once % tick = 0
        /\ 2 * rounding.once - tick <= 2 * rounding.input
        /\ 2 * rounding.input < 2 * rounding.once + tick

\* C25, amended: it returns the multiple of the tick nearest to the price, an
\* exact half going away from zero: up for a price that is not negative, down
\* for a negative one.
C25_NearestTickHalvesAwayFromZero ==
    (/\ rounding.op = "price"
     /\ filters.tickSize # None /\ filters.tickSize[1] # 0) =>
        LET tick == filters.tickSize[1] IN
        /\ rounding.once % tick = 0
        /\ IF rounding.input >= 0
              THEN /\ 2 * rounding.once - tick <= 2 * rounding.input
                   /\ 2 * rounding.input < 2 * rounding.once + tick
              ELSE /\ 2 * rounding.once - tick < 2 * rounding.input
                   /\ 2 * rounding.input <= 2 * rounding.once + tick

\* A positive price exactly between two ticks goes to the upper one.
C25_Witness ==
    /\ rounding.op = "price"
    /\ filters.tickSize = Some(TickSize)
    /\ rounding.input > 0
    /\ 2 * rounding.input = 2 * rounding.once - TickSize

\* Exit OrderRequests of the Monitor for symbol s on the order_request topic.
ExitsFor(s) ==
    Cardinality({n \in DOMAIN ex : ex[n].by[1] = "Monitor" /\ ex[n].req.symbol = s})

\* Entry fills applied for symbol s: the times s was put into the watch-set.
Memberships(s) ==
    Cardinality({m \in DOMAIN mon : mon[m].kind = "entry" /\ mon[m].s = s})

\* Check task k finishes on a tick that crosses the stop or the target of
\* the stored Position of its symbol.
CrossingCheckFinishes(k) ==
    /\ checks[k].pc = "get" /\ checks'[k].pc = "done"
    /\ checks[k].symbol \in DOMAIN positions
    /\ Crossed(positions[checks[k].symbol], checks[k].price)

ExHandlerFinishes(n) == ex[n].pc # "done" /\ ex'[n].pc = "done"

C28_FailedCreateCleansUpNoRetry ==
    [][\A n \in DOMAIN ex :
           /\ (ex[n].pc = "create" /\ ex'[n].pc # "create" /\ orders' = orders)
                  => ex'[n].pc = "del"
           /\ (ex[n].pc = "del" /\ ex'[n].pc # "del") =>
                  /\ ex'[n].pc = "done"
                  /\ ex'[n].created = ex[n].created
                  /\ failures' = failures =>
                         ex[n].req.client_order_id \notin DOMAIN pending_orders'
           /\ ex'[n].created <= 1]_vars

\* A request was cached, its create_order failed, and its entry is gone.
C28_Witness ==
    \E n \in DOMAIN ex :
        /\ ex[n].pc = "done" /\ ex[n].wrote /\ ex[n].created = 1
        /\ \A o \in DOMAIN orders : orders[o].by # n
        /\ ex[n].req.client_order_id \notin DOMAIN pending_orders
        /\ failures = 1

\* C29: when the write of the new Position fails while an entry fill is
\* processed (the Position of the fill is not in the store afterwards), the
\* symbol is not in the watch-set when the fill handler finishes.
C29_UnconfirmedPositionNotWatched ==
    [][\A m \in DOMAIN mon :
           (/\ mon[m].pc = "set_position" /\ mon'[m].pc = "done"
            /\ mon[m].s \notin DOMAIN positions')
               => mon[m].s \notin watched_symbols']_vars

\* C30: when the publish of the exit OrderRequest fails after a trigger (the
\* check got as far as the publish and nothing reached the topic), the
\* Monitor logs its critical alarm.
C30_FailedExitPublishIsAlarmed ==
    [][\A k \in DOMAIN checks :
           (/\ CrossingCheckFinishes(k)
            /\ checks[k].symbol \in watched_symbols
            /\ checks'[k].log # "none"
            /\ ex' = ex)
               => checks'[k].log = "critical_publish_failed"]_vars

\* C31: a FILLED report whose client_order_id has no pending_orders entry
\* changes nothing: its handler ends at the lookup, and the positions
\* collection, the watch-set, the TradeLog and the published events are as
\* they were (no position_opened, no position_closed).
C31_UnmatchedFillChangesNothing ==
    [][\A m \in DOMAIN mon :
           (/\ mon[m].pc = "get_pending"
            /\ mon[m].c \notin DOMAIN pending_orders
            /\ mon'[m] # mon[m])
               => /\ mon'[m].pc = "done"
                  /\ mon'[m].kind = "unmatched"
                  /\ UNCHANGED <<positions, pending_orders, watched_symbols,
                                 trade_log, events>>]_vars

\* A fill was looked up, with no failure anywhere, and found no entry.
C31_Witness ==
    \E m \in DOMAIN mon :
        /\ mon[m].pc = "done"
        /\ mon[m].kind = "unmatched"
        /\ mon[m].c \notin DOMAIN pending_orders
        /\ failures = 0

\* C32: an exit fill for a symbol that has no Position in the store ends at
\* the read of the Position: it appends no TradeLog row, publishes no
\* position_closed event and creates no Position.
C32_ExitFillWithoutPositionChangesNothing ==
    [][\A m \in DOMAIN mon :
           (/\ mon[m].pc = "get_position"
            /\ mon[m].s \notin DOMAIN positions
            /\ mon'[m] # mon[m]
            /\ mon_starts' = mon_starts)
               => /\ mon'[m].pc = "done"
                  /\ mon'[m].kind = "exit_no_position"
                  /\ UNCHANGED <<positions, watched_symbols, trade_log, events>>]_vars

\* The fill of a second exit order was handled after the first had closed
\* the position, with no failure anywhere.
C32_Witness ==
    \E m \in DOMAIN mon :
        /\ mon[m].pc = "done"
        /\ mon[m].kind = "exit_no_position"
        /\ mon[m].s \notin DOMAIN positions
        /\ failures = 0

\* C33: a CANCELED, REJECTED or EXPIRED execution report deletes only the
\* pending_orders entry of its client_order_id: every other entry stays as it
\* is, none is added, the entry of the report is gone when the delete reaches
\* the store, and the positions collection and the watch-set (and the
\* TradeLog and the events) are left unchanged.
C33_TerminalReportDeletesOnlyPendingEntry ==
    [][\A o \in DOMAIN orders :
           (orders[o].status = "NEW" /\ orders'[o].status \in NonFillStatuses) =>
               LET c == orders[o].req.client_order_id IN
               /\ DOMAIN pending_orders \ {c} \subseteq DOMAIN pending_orders'
               /\ DOMAIN pending_orders' \subseteq DOMAIN pending_orders
               /\ \A id \in DOMAIN pending_orders' :
                      pending_orders'[id] = pending_orders[id]
               /\ failures' = failures => c \notin DOMAIN pending_orders'
               /\ UNCHANGED <<positions, watched_symbols, trade_log, events>>]_vars

\* The exit order of an open position ended without a fill: its pending
\* entry is gone and the position is still in the store.
C33_Witness ==
    \E o \in DOMAIN orders :
        /\ orders[o].status \in NonFillStatuses
        /\ orders[o].req.client_order_id \notin DOMAIN pending_orders
        /\ ex[orders[o].by].wrote
        /\ orders[o].req.symbol \in DOMAIN positions
        /\ failures = 0

\* The handler that published the request of the order fill task m is about.
PublisherOf(m) == ex[orders[mon[m].order].by].by[1]

ChecksWatchedPosition(k) ==
    /\ checks[k].pc = "get" /\ checks'[k].pc = "done"
    /\ checks[k].symbol \in watched_symbols
    /\ checks[k].symbol \in DOMAIN positions

\* The step puts an exit OrderRequest of check task k on the topic.
PublishesExit(k) ==
    /\ Len(ex') = Len(ex) + 1
    /\ ex'[Len(ex')].by = <<"Monitor", k>>
    /\ ex'[Len(ex')].req.symbol = checks[k].symbol

\* Every exit OrderRequest that appears on the topic comes from a check
\* whose tick has crossed the stop or the target of the stored Position.
OnlyCrossingsPublish ==
    (Len(ex') > Len(ex) /\ ex'[Len(ex')].by[1] = "Monitor") =>
        LET k == ex'[Len(ex')].by[2] IN
        /\ ChecksWatchedPosition(k)
        /\ PublishesExit(k)
        /\ Crossed(positions[checks[k].symbol], checks[k].price)

C36_PositionsWithinCap ==
    failures = 0 => Cardinality(DOMAIN positions) <= MAX_CONCURRENT_TRADES

\* Exit OrderRequests of the Monitor for symbol s that the Executor has
\* turned into an order at the exchange.
ExitsPlacedFor(s) ==
    Cardinality({n \in DOMAIN ex : /\ ex[n].by[1] = "Monitor"
                                   /\ ex[n].req.symbol = s
                                   /\ ex[n].created > 0})

\* C38: for each open Position at most one exit OrderRequest is ever
\* published, also across a restart of the Monitor that happens while the
\* exit order of that position is still in flight; so no two exit requests
\* for one Position are ever turned into orders.  (Every Position here is
\* the one the store held at the start, and a request that was lost with the
\* old process is not counted; stated for the executions without an
\* infrastructure failure.)
C38_OneExitPerPositionAcrossRestart ==
    failures = 0 => \A s \in Symbols : ExitsPlacedFor(s) <= 1

\* C39: if two FILLED reports with the same client_order_id are processed
\* concurrently, at most one of them gets past the pending-order lookup: no
\* two fill tasks hold the entry of one client_order_id, read and not yet
\* deleted, at the same time.  (Stated for the executions without an
\* infrastructure failure.)
C39_OneFillPastTheLookup ==
    failures = 0 =>
        \A m1, m2 \in DOMAIN mon :
            (/\ m1 # m2
             /\ mon[m1].c = mon[m2].c
             /\ mon[m1].pc = "del_pending")
                => mon[m2].pc # "del_pending"

\* A stop-loss/take-profit trigger has removed symbol s from the watch-set
\* and its Position is still in the store.  (With no failure and no restart
\* a running Monitor stops watching a stored Position on a trigger only.)
TriggerLeftOpen(s) ==
    /\ mon_run = "running"
    /\ failures = 0
    /\ s \in DOMAIN positions
    /\ model_validate_position(positions[s])
    /\ s \notin watched_symbols

\* C37: after a stop-loss/take-profit trigger has removed a symbol from the
\* watch-set, the position is eventually closed or the symbol is eventually
\* watched again: a position never stays open and unwatched forever, also
\* when the exit order is rejected, cancelled or expired.
C37_TriggeredPositionClosedOrRewatched ==
    \A s \in Symbols :
        [](TriggerLeftOpen(s) =>
               <>(s \notin DOMAIN positions \/ s \in watched_symbols))

====
